---- MODULE Spec2Model ----
(***************************************************************************)
(* Model of neai_format.py: the main sequence (get_headers,                *)
(* get_columns_indexes_to_keep, create_dataset) run over an input file.    *)
(* Text is a sequence of one-character strings; a file is a sequence of    *)
(* lines, each with its line terminator.  A float is the pair (m, e)       *)
(* standing for m / 10^e with no trailing zero in the fraction: the value  *)
(* str(float(s)) prints for the decimal strings of the model.              *)
(***************************************************************************)
EXTENDS Integers, Sequences, FiniteSets, TLC

(* ------------------------------ bounds --------------------------------- *)
MaxLines == 3
MaxBuffer == 3
MaxFactor == 2
MaxLimit == 2

(* ----------------------------- alphabet -------------------------------- *)
DigitChars == <<"0", "1", "2", "3", "4", "5", "6", "7", "8", "9">>
Digits == {DigitChars[i] : i \in 1..10}
DigitVal(c) == (CHOOSE i \in 1..10 : DigitChars[i] = c) - 1

(* A column selector of COLUMNS_TO_KEEP: an int (1-based index) or a label *)
IntSel(n) == [isint |-> TRUE, n |-> n, label |-> <<>>]
LabelSel(s) == [isint |-> FALSE, n |-> 0, label |-> s]

(* ------------------------------ inputs --------------------------------- *)
HeaderLines ==
    { <<"X", ";", "Y", "\n">>,
      <<"Y", ";", "X", ";", "Y", "\r", "\n">> }
DataLines ==
    { <<"1", ";", "2", "\n">>,
      <<"1", ",", "5", ";", "2", "\r", "\n">>,
      <<"3", "\n">> }

RECURSIVE SeqsUpTo(_, _)
SeqsUpTo(S, n) ==
    IF n = 0 THEN {<<>>}
    ELSE LET shorter == SeqsUpTo(S, n - 1)
         IN  shorter \cup {Append(s, x) : s \in shorter, x \in S}

(* Input files: up to MaxLines lines; a label line may only come first. *)
InputFiles ==
    LET tails == SeqsUpTo(DataLines, MaxLines - 1)
    IN  SeqsUpTo(DataLines, MaxLines) \cup {<<h>> \o t : h \in HeaderLines, t \in tails}

ValueDelimiters == {";", ","}
DecimalDelimiters == {".", ","}

IndexColumns ==
    { <<IntSel(1)>>, <<IntSel(2)>>, <<IntSel(1), IntSel(2)>>, <<IntSel(2), IntSel(1)>> }
LabelColumns ==
    { <<LabelSel(<<"Y">>)>>,
      <<LabelSel(<<"X">>), LabelSel(<<"Y">>)>>,
      <<LabelSel(<<"Y">>), LabelSel(<<"Y">>)>>,
      <<LabelSel(<<"X">>), LabelSel(<<"Z">>)>> }
MixedColumns ==
    { <<IntSel(1), LabelSel(<<"X">>)>>, <<LabelSel(<<"Y">>), IntSel(1)>> }

ALL == [isint |-> FALSE, n |-> 0]
Limit(n) == [isint |-> TRUE, n |-> n]
LimitChoices == {ALL} \cup {Limit(n) : n \in 0..MaxLimit}

(* ------------------------------- state --------------------------------- *)
VARIABLES
    INPUT_FILE_VALUE_DELIMITER,
    INPUT_FILE_DECIMAL_DELIMITER,
    INPUT_FILE_HAS_HEADERS,
    COLUMNS_TO_KEEP,
    BUFFER_SIZE,
    DOWNSAMPLE_FACTOR,
    LINES_TO_BUILD,
    input_file,        \* the lines of the input file
    file_pos,          \* number of lines the reader has handed out
    headers,           \* get_headers' result; <<>> stands for None
    warning,           \* logging.warning was issued by get_headers
    columns_indexes,   \* get_columns_indexes_to_keep's result
    line_index,        \* enumerate's index of the line last handed out
    nb_lines_built,
    tmp_buffer,
    output,            \* lines appended to the output file, each a list of values
    contributed,       \* file line numbers whose values were appended to tmp_buffer
    pc,
    err                \* the message exit_on_error was called with

config == <<INPUT_FILE_VALUE_DELIMITER, INPUT_FILE_DECIMAL_DELIMITER,
            INPUT_FILE_HAS_HEADERS, COLUMNS_TO_KEEP, BUFFER_SIZE,
            DOWNSAMPLE_FACTOR, LINES_TO_BUILD, input_file>>
vars == <<config, file_pos, headers, warning, columns_indexes, line_index,
          nb_lines_built, tmp_buffer, output, contributed, pc, err>>

NoError == [msg |-> "none", line |-> 0, column |-> 0, sel |-> IntSel(0)]
Error(m, l, c, s) == [msg |-> m, line |-> l, column |-> c, sel |-> s]

(* ------------------------- pure text helpers --------------------------- *)
RECURSIVE rstrip(_, _)
rstrip(s, c) ==
    IF Len(s) > 0 /\ s[Len(s)] = c THEN rstrip(SubSeq(s, 1, Len(s) - 1), c) ELSE s

RECURSIVE split(_, _)
split(s, d) ==
    IF \E i \in 1..Len(s) : s[i] = d
    THEN LET i == CHOOSE k \in 1..Len(s) :
                     s[k] = d /\ \A j \in 1..(k - 1) : s[j] # d
         IN  <<SubSeq(s, 1, i - 1)>> \o split(SubSeq(s, i + 1, Len(s)), d)
    ELSE <<s>>

replace(s, old, new) == [i \in 1..Len(s) |-> IF s[i] = old THEN new ELSE s[i]]

RECURSIVE Normalize(_, _)
Normalize(m, e) ==
    IF e > 0 /\ m % 10 = 0 THEN Normalize(m \div 10, e - 1) ELSE [m |-> m, e |-> e]

RECURSIVE DigitsValue(_)
DigitsValue(ds) ==
    IF ds = <<>> THEN 0
    ELSE DigitsValue(SubSeq(ds, 1, Len(ds) - 1)) * 10 + DigitVal(ds[Len(ds)])

(* float(s) raises ValueError unless s is digits with at most one point *)
IsFloat(s) ==
    /\ \A i \in 1..Len(s) : s[i] \in Digits \cup {"."}
    /\ \E i \in 1..Len(s) : s[i] \in Digits
    /\ Cardinality({i \in 1..Len(s) : s[i] = "."}) <= 1

float(s) ==
    LET ds == SelectSeq(s, LAMBDA c : c \in Digits)
        frac == IF \E i \in 1..Len(s) : s[i] = "."
                THEN Len(s) - (CHOOSE i \in 1..Len(s) : s[i] = ".")
                ELSE 0
    IN  Normalize(DigitsValue(ds), frac)

(* ------------------------- read_values_of_line ------------------------- *)
(* Variant: the delimiters are never compared *)
DelimitersNotCompared == FALSE

DelimitersEqual == INPUT_FILE_VALUE_DELIMITER = INPUT_FILE_DECIMAL_DELIMITER

read_values_of_line(line) ==
    split(rstrip(rstrip(line, "\n"), "\r"), INPUT_FILE_VALUE_DELIMITER)

(* --------------------------- convert_to_float -------------------------- *)
FloatStr(value_str) == replace(value_str, INPUT_FILE_DECIMAL_DELIMITER, ".")

ConvertError(line_number) ==
    IF line_number = 1 /\ ~INPUT_FILE_HAS_HEADERS
    THEN Error("cannot_convert_maybe_headers", line_number, 0, IntSel(0))
    ELSE IF line_number = 2 /\ INPUT_FILE_HAS_HEADERS
    THEN Error("cannot_convert_maybe_delimiters", line_number, 0, IntSel(0))
    ELSE Error("cannot_convert", line_number, 0, IntSel(0))

(* --------------------------------- Init -------------------------------- *)
Init ==
    /\ INPUT_FILE_VALUE_DELIMITER \in ValueDelimiters
    /\ INPUT_FILE_DECIMAL_DELIMITER \in DecimalDelimiters
    /\ INPUT_FILE_HAS_HEADERS \in BOOLEAN
    /\ \/ /\ COLUMNS_TO_KEEP \in IndexColumns
          /\ BUFFER_SIZE \in 1..MaxBuffer
          /\ DOWNSAMPLE_FACTOR \in 1..MaxFactor
          /\ LINES_TO_BUILD \in LimitChoices
       \/ /\ COLUMNS_TO_KEEP \in {<<>>} \cup LabelColumns \cup MixedColumns
          /\ BUFFER_SIZE = 1
          /\ DOWNSAMPLE_FACTOR = 1
          /\ LINES_TO_BUILD = ALL
    /\ input_file \in InputFiles
    /\ file_pos = 0
    /\ headers = <<>>
    /\ warning = FALSE
    /\ columns_indexes = <<>>
    /\ line_index = 0
    /\ nb_lines_built = 0
    /\ tmp_buffer = <<>>
    /\ output = <<>>
    /\ contributed = {}
    /\ pc = "get_headers"
    /\ err = NoError

(* ----------------------------- exit_on_error --------------------------- *)
(* Variant: the error is logged and the caller carries on *)
exit_on_error_log_only(error_message) ==
    /\ err' = error_message
    /\ pc' = "write"

exit_on_error(error_message) ==
    /\ err' = error_message
    /\ pc' = "error"

(* ------------------------------ get_headers ---------------------------- *)
get_headers ==
    /\ pc = "get_headers"
    /\ IF ~INPUT_FILE_HAS_HEADERS
       THEN /\ pc' = "get_columns"
            /\ UNCHANGED <<file_pos, headers, warning, err>>
       ELSE LET first_line == IF file_pos < Len(input_file)
                              THEN input_file[file_pos + 1] ELSE <<>>
                first_line_values == read_values_of_line(first_line)
                last == first_line_values[Len(first_line_values)]
            IN  /\ file_pos' = IF file_pos < Len(input_file)
                               THEN file_pos + 1 ELSE file_pos
                /\ IF DelimitersEqual
                   THEN /\ exit_on_error(Error("delimiters_equal", 0, 0, IntSel(0)))
                        /\ UNCHANGED <<headers, warning>>
                   ELSE /\ headers' = first_line_values
                        /\ warning' = IsFloat(FloatStr(last))
                        /\ pc' = "get_columns"
                        /\ UNCHANGED err
    /\ UNCHANGED <<config, columns_indexes, line_index, nb_lines_built,
                   tmp_buffer, output, contributed>>

(* ---------------------- get_columns_indexes_to_keep -------------------- *)
(* Variant: positions counted from 1 *)
index_one_based(hdrs, sel) ==
    IF ~sel.isint /\ \E i \in 1..Len(hdrs) : hdrs[i] = sel.label
    THEN CHOOSE i \in 1..Len(hdrs) :
             hdrs[i] = sel.label /\ \A j \in 1..(i - 1) : hdrs[j] # sel.label
    ELSE -1

(* headers.index(label): the first position (zero-based) whose field equals *)
(* the label, -1 standing for ValueError; an int never equals a str        *)
index(hdrs, sel) ==
    IF ~sel.isint /\ \E i \in 1..Len(hdrs) : hdrs[i] = sel.label
    THEN (CHOOSE i \in 1..Len(hdrs) :
              hdrs[i] = sel.label /\ \A j \in 1..(i - 1) : hdrs[j] # sel.label) - 1
    ELSE -1

(* enumerate(input_file_reader, start=int(INPUT_FILE_HAS_HEADERS) + 1) *)
StartIndex == IF INPUT_FILE_HAS_HEADERS THEN 2 ELSE 1

AllInt(columns) == \A i \in 1..Len(columns) : columns[i].isint

get_columns_indexes_to_keep ==
    /\ pc = "get_columns"
    /\ IF COLUMNS_TO_KEEP = <<>>
       THEN /\ exit_on_error(Error("columns_to_keep_not_set", 0, 0, IntSel(0)))
            /\ UNCHANGED <<columns_indexes, line_index>>
       ELSE IF AllInt(COLUMNS_TO_KEEP)
       THEN /\ columns_indexes' =
                   [i \in 1..Len(COLUMNS_TO_KEEP) |-> COLUMNS_TO_KEEP[i].n - 1]
            /\ line_index' = StartIndex - 1
            /\ pc' = "loop"
            /\ UNCHANGED err
       ELSE IF ~INPUT_FILE_HAS_HEADERS
       THEN /\ exit_on_error(Error("labels_without_headers", 0, 0, IntSel(0)))
            /\ UNCHANGED <<columns_indexes, line_index>>
       ELSE IF \E i \in 1..Len(COLUMNS_TO_KEEP) : index(headers, COLUMNS_TO_KEEP[i]) = -1
       THEN LET i == CHOOSE k \in 1..Len(COLUMNS_TO_KEEP) :
                         /\ index(headers, COLUMNS_TO_KEEP[k]) = -1
                         /\ \A j \in 1..(k - 1) : index(headers, COLUMNS_TO_KEEP[j]) # -1
            IN  /\ exit_on_error(Error("label_not_found", 0, 0, COLUMNS_TO_KEEP[i]))
                /\ UNCHANGED <<columns_indexes, line_index>>
       ELSE /\ columns_indexes' =
                   [i \in 1..Len(COLUMNS_TO_KEEP) |-> index(headers, COLUMNS_TO_KEEP[i])]
            /\ line_index' = StartIndex - 1
            /\ pc' = "loop"
            /\ UNCHANGED err
    /\ UNCHANGED <<config, file_pos, headers, warning, nb_lines_built,
                   tmp_buffer, output, contributed>>

(* ------------------------------ create_dataset ------------------------- *)
(* Variant: the message names the zero-based column *)
NotEnoughErrorZeroBased(line, idx) ==
    IF line <= 2
    THEN Error("not_enough_values_maybe_delimiter", line, idx, IntSel(0))
    ELSE Error("not_enough_values", line, idx, IntSel(0))

NotEnoughError(line, idx) ==
    IF line <= 2
    THEN Error("not_enough_values_maybe_delimiter", line, idx + 1, IntSel(0))
    ELSE Error("not_enough_values", line, idx + 1, IntSel(0))

(* Variant: each value is inserted at the front of the buffer *)
RECURSIVE BuildBufferPrepend(_, _, _, _)
BuildBufferPrepend(values, k, buf, line) ==
    IF k > Len(columns_indexes) THEN [buf |-> buf, err |-> NoError]
    ELSE LET idx == columns_indexes[k]
         IN  IF Len(values) <= idx
             THEN [buf |-> buf, err |-> NotEnoughError(line, idx)]
             ELSE IF ~IsFloat(FloatStr(values[idx + 1]))
             THEN [buf |-> buf, err |-> ConvertError(line)]
             ELSE BuildBufferPrepend(values, k + 1,
                                     <<float(FloatStr(values[idx + 1]))>> \o buf, line)

(* The "Build buffer" loop over columns_indexes from position k on: the    *)
(* buffer it leaves and the error it exits with, if any.                   *)
RECURSIVE BuildBuffer(_, _, _, _)
BuildBuffer(values, k, buf, line) ==
    IF k > Len(columns_indexes) THEN [buf |-> buf, err |-> NoError]
    ELSE LET idx == columns_indexes[k]
         IN  IF Len(values) <= idx
             THEN [buf |-> buf, err |-> NotEnoughError(line, idx)]
             ELSE IF ~IsFloat(FloatStr(values[idx + 1]))
             THEN [buf |-> buf, err |-> ConvertError(line)]
             ELSE BuildBuffer(values, k + 1,
                              Append(buf, float(FloatStr(values[idx + 1]))), line)

(* Variant: the limit test is strict *)
LimitExceeded == LINES_TO_BUILD.isint /\ nb_lines_built > LINES_TO_BUILD.n

LimitReached == LINES_TO_BUILD.isint /\ nb_lines_built >= LINES_TO_BUILD.n

(* Variant: rows are counted from the first data row *)
ParticipatesFromFirstDataRow(line) == (line - StartIndex + 1) % DOWNSAMPLE_FACTOR = 0

Participates(line) == line % DOWNSAMPLE_FACTOR = 0

(* One pass of the for loop up to the "Write line" test *)
read_line ==
    /\ pc = "loop"
    /\ IF file_pos = Len(input_file)
       THEN /\ pc' = "exhausted"
            /\ UNCHANGED <<file_pos, line_index, tmp_buffer, contributed, err>>
       ELSE LET line == input_file[file_pos + 1]
                idx == line_index + 1
                values == read_values_of_line(line)
                built == BuildBuffer(values, 1, tmp_buffer, idx)
            IN  /\ file_pos' = file_pos + 1
                /\ line_index' = idx
                /\ IF LimitReached
                   THEN /\ pc' = "limit_reached"
                        /\ UNCHANGED <<tmp_buffer, contributed, err>>
                   ELSE IF DelimitersEqual
                   THEN /\ exit_on_error(Error("delimiters_equal", 0, 0, IntSel(0)))
                        /\ UNCHANGED <<tmp_buffer, contributed>>
                   ELSE IF ~Participates(idx)
                   THEN /\ pc' = "write"
                        /\ UNCHANGED <<tmp_buffer, contributed, err>>
                   ELSE /\ tmp_buffer' = built.buf
                        /\ contributed' = IF built.buf # tmp_buffer
                                          THEN contributed \cup {file_pos + 1}
                                          ELSE contributed
                        /\ IF built.err # NoError
                           THEN exit_on_error(built.err)
                           ELSE pc' = "write" /\ UNCHANGED err
    /\ UNCHANGED <<config, headers, warning, columns_indexes, nb_lines_built, output>>

(* Variant: the number of columns is left out of the test *)
BufferCompleteOneColumn == Len(tmp_buffer) = BUFFER_SIZE

BufferComplete == Len(tmp_buffer) = Len(columns_indexes) * BUFFER_SIZE

(* Variant: the buffer is not reset after the write *)
write_line_keep_buffer ==
    /\ pc = "write"
    /\ IF Len(tmp_buffer) = Len(columns_indexes) * BUFFER_SIZE
       THEN /\ output' = Append(output, tmp_buffer)
            /\ nb_lines_built' = nb_lines_built + 1
            /\ UNCHANGED tmp_buffer
       ELSE UNCHANGED <<output, tmp_buffer, nb_lines_built>>
    /\ pc' = "loop"
    /\ UNCHANGED <<config, file_pos, headers, warning, columns_indexes,
                   line_index, contributed, err>>

(* The "Write line if buffer complete" block of the same pass *)
write_line ==
    /\ pc = "write"
    /\ IF BufferComplete
       THEN /\ output' = Append(output, tmp_buffer)
            /\ tmp_buffer' = <<>>
            /\ nb_lines_built' = nb_lines_built + 1
       ELSE UNCHANGED <<output, tmp_buffer, nb_lines_built>>
    /\ pc' = "loop"
    /\ UNCHANGED <<config, file_pos, headers, warning, columns_indexes,
                   line_index, contributed, err>>

Next ==
    \/ get_headers
    \/ get_columns_indexes_to_keep
    \/ read_line
    \/ write_line

Spec == Init /\ [][Next]_vars

(* ======================= properties of the program ===================== *)
Finished == pc \in {"exhausted", "limit_reached"}
Resolved == pc \in {"loop", "write", "exhausted", "limit_reached"}

ConfigurationErrors ==
    {"delimiters_equal", "columns_to_keep_not_set", "labels_without_headers"}
LookupErrors == {"label_not_found"}
NotEnoughErrors == {"not_enough_values", "not_enough_values_maybe_delimiter"}
ConvertErrors ==
    {"cannot_convert", "cannot_convert_maybe_headers", "cannot_convert_maybe_delimiters"}

NbColumns == Len(columns_indexes)
Threshold == NbColumns * BUFFER_SIZE
FirstDataLine == IF INPUT_FILE_HAS_HEADERS THEN 2 ELSE 1
Min(a, b) == IF a <= b THEN a ELSE b

(* The file line numbers up to u that downsampling keeps, in file order *)
ParticipatingUpTo(u) ==
    SelectSeq([i \in 1..u |-> i],
              LAMBDA q : q >= FirstDataLine /\ q % DOWNSAMPLE_FACTOR = 0)
Participating == ParticipatingUpTo(Len(input_file))

Fields(p) == read_values_of_line(input_file[p])
(* The value of the c-th selected column on file line p *)
Value(p, c) == float(FloatStr(Fields(p)[columns_indexes[c] + 1]))

(* The rows a run over the file lines 1..u writes: complete windows only *)
RowsUpTo(u) ==
    LET part == ParticipatingUpTo(u)
        w == Len(part) \div BUFFER_SIZE
        n == IF LINES_TO_BUILD.isint THEN Min(LINES_TO_BUILD.n, w) ELSE w
    IN  [k \in 1..n |->
            [q \in 1..Threshold |->
                Value(part[(k - 1) * BUFFER_SIZE + ((q - 1) \div NbColumns) + 1],
                      ((q - 1) % NbColumns) + 1)]]

(* C1 as stated: every written row is column-major: the BUFFER_SIZE values *)
(* of the first selected column in row order, then those of the second,    *)
(* and so on.                                                              *)
C1_ColumnMajor ==
    \A k \in 1..Len(output) :
        /\ Len(output[k]) = Threshold
        /\ \A j \in 1..BUFFER_SIZE : \A c \in 1..NbColumns :
               output[k][(c - 1) * BUFFER_SIZE + j]
                   = Value(Participating[(k - 1) * BUFFER_SIZE + j], c)

(* C1 amended: every written row is row-major: for each participating row  *)
(* of the window in file order, the values of the selected columns in      *)
(* selector order ("a1,b1,a2,b2,a3,b3").                                   *)
C1_RowMajor ==
    \A k \in 1..Len(output) :
        /\ Len(output[k]) = Threshold
        /\ \A j \in 1..BUFFER_SIZE : \A c \in 1..NbColumns :
               output[k][(j - 1) * NbColumns + c]
                   = Value(Participating[(k - 1) * BUFFER_SIZE + j], c)

C1_Witness ==
    /\ Len(output) = 1
    /\ NbColumns = 2
    /\ BUFFER_SIZE = 3
    /\ output[1][1] # output[1][2]
    /\ output[1][1] # output[1][3]

(* C2: a finished run has written min(L, W) rows, W the number of complete *)
(* windows of participating rows in the file (W rows when the limit is     *)
(* 'ALL'); the values of a trailing incomplete window stay in the buffer.  *)
C2_RowCount ==
    Finished =>
        LET w == Len(Participating) \div BUFFER_SIZE
        IN  /\ Len(output) = IF LINES_TO_BUILD.isint
                             THEN Min(LINES_TO_BUILD.n, w) ELSE w
            /\ pc = "exhausted" =>
                   Len(tmp_buffer) = NbColumns * (Len(Participating) % BUFFER_SIZE)

C2_Witness ==
    /\ Finished
    /\ LINES_TO_BUILD.isint
    /\ Len(output) = LINES_TO_BUILD.n
    /\ Len(output) >= 1
    /\ Len(Participating) \div BUFFER_SIZE > LINES_TO_BUILD.n

C2_WitnessIncomplete ==
    /\ pc = "exhausted"
    /\ Len(output) >= 1
    /\ tmp_buffer # <<>>

(* C3: among the data rows the loop has processed, exactly those whose     *)
(* line number in the file (1 for the first data row without header, 2     *)
(* with a header) is a multiple of DOWNSAMPLE_FACTOR have contributed      *)
(* values to the buffer.                                                   *)
C3_Downsample ==
    Resolved =>
        LET last == IF pc = "limit_reached" THEN file_pos - 1 ELSE file_pos
        IN  contributed = {q \in FirstDataLine..last : q % DOWNSAMPLE_FACTOR = 0}

C3_Witness ==
    /\ pc = "exhausted"
    /\ INPUT_FILE_HAS_HEADERS
    /\ DOWNSAMPLE_FACTOR = 2
    /\ contributed = {2}
    /\ Len(input_file) = 3

C3_WitnessNoHeader ==
    /\ pc = "exhausted"
    /\ ~INPUT_FILE_HAS_HEADERS
    /\ DOWNSAMPLE_FACTOR = 2
    /\ contributed = {2}
    /\ Len(input_file) = 3

(* The loop body has run for file line p *)
Processed(p) ==
    /\ Resolved \/ (pc = "error" /\ columns_indexes # <<>>)
    /\ FirstDataLine <= p
    /\ p <= file_pos
    /\ ~(pc = "limit_reached" /\ p = file_pos)
    /\ INPUT_FILE_VALUE_DELIMITER # INPUT_FILE_DECIMAL_DELIMITER

Short(p) == \E c \in 1..NbColumns : Len(Fields(p)) <= columns_indexes[c]
FirstMissing(p) ==
    CHOOSE c \in 1..NbColumns :
        /\ Len(Fields(p)) <= columns_indexes[c]
        /\ \A d \in 1..(c - 1) : Len(Fields(p)) > columns_indexes[d]
Unparseable(p, c) == ~IsFloat(FloatStr(Fields(p)[columns_indexes[c] + 1]))

NotEnoughAt(p) ==
    /\ pc = "error"
    /\ err.msg \in NotEnoughErrors
    /\ err.line = p
    /\ err.column = columns_indexes[FirstMissing(p)] + 1

(* C4 as stated: a processed line with fewer fields than the highest       *)
(* requested column makes the run fail with the not-enough-values error    *)
(* naming the line and the missing column.                                 *)
C4_ShortLineFails ==
    \A p \in 1..Len(input_file) : (Processed(p) /\ Short(p)) => NotEnoughAt(p)

(* C4 amended: a processed line whose number is a multiple of              *)
(* DOWNSAMPLE_FACTOR and that has fewer fields than the highest requested  *)
(* column makes the run fail on that line: with the not-enough-values      *)
(* error naming the line and the first missing column in selector order,   *)
(* or, when a column selected before it holds an unparseable field, with   *)
(* the cannot-convert error naming the line; no row holds its values.      *)
C4_ParticipatingShortLineFails ==
    \A p \in 1..Len(input_file) :
        (Processed(p) /\ Short(p) /\ p % DOWNSAMPLE_FACTOR = 0) =>
            /\ pc = "error"
            /\ file_pos = p
            /\ IF \E d \in 1..(FirstMissing(p) - 1) : Unparseable(p, d)
               THEN err.msg \in ConvertErrors /\ err.line = p
               ELSE NotEnoughAt(p)
            /\ Len(output) * BUFFER_SIZE <= Len(ParticipatingUpTo(p - 1))

C4_Witness ==
    /\ pc = "error"
    /\ err.msg = "not_enough_values"
    /\ err.column = 2
    /\ Len(output) >= 1
    /\ tmp_buffer # <<>>

(* C5 as stated: with equal delimiters every run fails with a              *)
(* ConfigurationError and writes nothing.                                  *)
C5_EqualDelimitersFail ==
    INPUT_FILE_VALUE_DELIMITER = INPUT_FILE_DECIMAL_DELIMITER =>
        /\ ~Finished
        /\ pc = "error" => err.msg \in ConfigurationErrors
        /\ output = <<>>

(* C5 amended: with equal delimiters no row is written and no line is      *)
(* split; the run fails with a ConfigurationError, except that it ends     *)
(* without error when headers are configured absent, the column list is    *)
(* valid and no data line is read (empty input or a row limit of 0).       *)
C5_EqualDelimitersFailOnFirstRead ==
    INPUT_FILE_VALUE_DELIMITER = INPUT_FILE_DECIMAL_DELIMITER =>
        /\ output = <<>>
        /\ tmp_buffer = <<>>
        /\ headers = <<>>
        /\ pc # "write"
        /\ pc = "error" => err.msg \in ConfigurationErrors
        /\ Finished =>
               /\ ~INPUT_FILE_HAS_HEADERS
               /\ input_file = <<>> \/ LINES_TO_BUILD = Limit(0)

C5_Witness ==
    /\ INPUT_FILE_VALUE_DELIMITER = INPUT_FILE_DECIMAL_DELIMITER
    /\ pc = "error"
    /\ err.msg = "delimiters_equal"
    /\ ~INPUT_FILE_HAS_HEADERS
    /\ file_pos = 1

(* C6: every written row holds (number of selected columns) x BUFFER_SIZE  *)
(* values.                                                                 *)
C6_RowLength ==
    \A k \in 1..Len(output) : Len(output[k]) = Len(COLUMNS_TO_KEEP) * BUFFER_SIZE

C6_Witness ==
    /\ Len(output) = 2
    /\ Len(COLUMNS_TO_KEEP) = 2

(* C7: once exit_on_error has been called the run has stopped: no line     *)
(* after the failing one is read, and the output holds exactly the         *)
(* complete windows of the lines before the failing one; what the buffer   *)
(* holds is not written.                                                   *)
C7_AbortImmediately ==
    err.msg # "none" =>
        /\ pc = "error"
        /\ Len(output) = nb_lines_built
        /\ IF columns_indexes = <<>>
           THEN output = <<>> /\ file_pos <= 1
           ELSE /\ file_pos = line_index
                /\ output = RowsUpTo(file_pos - 1)

C7_Witness ==
    /\ pc = "error"
    /\ err.msg \in ConvertErrors
    /\ Len(output) >= 1
    /\ tmp_buffer # <<>>
    /\ file_pos < Len(input_file)

(* C8: with headers and only labels in COLUMNS_TO_KEEP, the resolver gives *)
(* for each selector, in order, the zero-based position of the first       *)
(* header field equal to the label; if a label matches no header field the *)
(* run fails with the label-not-found error naming the first such label.   *)
AllLabels == COLUMNS_TO_KEEP # <<>> /\ \A i \in 1..Len(COLUMNS_TO_KEEP) : ~COLUMNS_TO_KEEP[i].isint
InHeaders(label) == \E j \in 1..Len(headers) : headers[j] = label

C8_LabelsResolve ==
    (INPUT_FILE_HAS_HEADERS /\ AllLabels /\ headers # <<>> /\ pc # "get_columns") =>
        IF \A i \in 1..Len(COLUMNS_TO_KEEP) : InHeaders(COLUMNS_TO_KEEP[i].label)
        THEN /\ err.msg \notin LookupErrors
             /\ Len(columns_indexes) = Len(COLUMNS_TO_KEEP)
             /\ \A i \in 1..Len(COLUMNS_TO_KEEP) :
                    LET pos == columns_indexes[i] + 1
                    IN  /\ pos \in 1..Len(headers)
                        /\ headers[pos] = COLUMNS_TO_KEEP[i].label
                        /\ \A j \in 1..(pos - 1) : headers[j] # COLUMNS_TO_KEEP[i].label
        ELSE /\ pc = "error"
             /\ err.msg \in LookupErrors
             /\ \E i \in 1..Len(COLUMNS_TO_KEEP) :
                    /\ err.sel = COLUMNS_TO_KEEP[i]
                    /\ ~InHeaders(COLUMNS_TO_KEEP[i].label)
                    /\ \A j \in 1..(i - 1) : InHeaders(COLUMNS_TO_KEEP[j].label)

C8_Witness ==
    /\ Resolved
    /\ AllLabels
    /\ Len(headers) = 3
    /\ columns_indexes = <<1, 0>>

C8_WitnessNotFound ==
    /\ pc = "error"
    /\ AllLabels
    /\ err.msg = "label_not_found"
    /\ err.sel = LabelSel(<<"Z">>)

(* C9: between two input lines the buffer length is a multiple of the      *)
(* number of selected columns and below the flush threshold; the buffer    *)
(* never exceeds the threshold and reaches it only in the pass that        *)
(* flushes it.                                                             *)
C9_BufferBounds ==
    columns_indexes # <<>> =>
        /\ Len(tmp_buffer) <= Threshold
        /\ Len(tmp_buffer) = Threshold => pc = "write"
        /\ pc = "loop" => Len(tmp_buffer) % NbColumns = 0

C9_Witness ==
    /\ pc = "write"
    /\ Len(tmp_buffer) = Threshold
    /\ NbColumns = 2
    /\ BUFFER_SIZE = 2
    /\ Len(output) = 0

(* C10: a COLUMNS_TO_KEEP that mixes ints and labels is rejected by the    *)
(* resolver with a ConfigurationError, whether or not headers are present. *)
Mixed ==
    /\ \E i \in 1..Len(COLUMNS_TO_KEEP) : COLUMNS_TO_KEEP[i].isint
    /\ \E i \in 1..Len(COLUMNS_TO_KEEP) : ~COLUMNS_TO_KEEP[i].isint

C10_MixedRejected ==
    (Mixed /\ pc \notin {"get_headers", "get_columns"}) =>
        pc = "error" /\ err.msg \in ConfigurationErrors
====
